---------------------------- MODULE Spec2Model ----------------------------
(***************************************************************************)
(* A model of apache_combined_log_parser.py: the per-line field            *)
(* extraction of parse_log_file, the LogResults objects and their shared   *)
(* default dictionaries, reduce_records, and the __main__ driver with its  *)
(* report (off-site percentage, top URLs, customer usage).                 *)
(*                                                                         *)
(* Python strings are sequences of one-character strings, so that          *)
(* shlex.split, str.split, int, str.startswith, urlparse and the           *)
(* `in` substring test are computed character by character.                *)
(***************************************************************************)
EXTENDS Integers, Sequences, FiniteSets, Bags, TLC

\* ------------------------------------------------------------------------
\* State.
\* ------------------------------------------------------------------------
VARIABLES
    pc,                 \* where __main__ is: "start", "loop", "read",
                        \* "merge", "report", "done", "exited", "crashed"
    argc,               \* len(sys.argv)
    log_files,          \* the log files the for loop has still to visit
    log_file,           \* the loop variable of line 135
    locals,             \* parse_log_file's local variables for the open file
    lines_read,         \* how many lines the open file has yielded
    rec_result,         \* line 136
    aggregate_results,  \* lines 134 and 137
    heap,               \* the dictionaries, by reference
    error,              \* the exception that ended the run, or "none"
    output,             \* what has been printed
    seen,               \* the bag of catalogue lines the files have yielded
    facts,              \* what lines 88-103 compute from each catalogue line
    recs,               \* the LogResults objects a client of the module holds
    calls,              \* the reduce_records calls it made, oldest first
    grouping,           \* the grouping a client evaluates first
    freq_items,         \* a frequency map's items, in iteration order
    top_limit,          \* the limit of a top-URL selection
    selection           \* the selection made

\* ------------------------------------------------------------------------
\* Module constants of the program (lines 14-30).
\* ------------------------------------------------------------------------
REQUEST_INDEX == 5
HTTP_CODE_INDEX == 6
BYTES_INDEX == 7
REFERRER_INDEX == 8
HTTP_SUCCESS_CODE == <<"2">>
POPULAR_URLS_LIMIT == 10
GIGABYTE == 1073741824
ONSITE == <<"e","x","a","m","p","l","e",".","c","o","m">>

\* ------------------------------------------------------------------------
\* Bounds of the model.
\* ------------------------------------------------------------------------
\* Directory entries listed by os.listdir.
MaxFiles == 2
\* Lines read from one log file.
MaxLines == 2
\* reduce_records calls in a free run of the merger.
MaxCalls == 2
\* URLs of a frequency map handed to the top-URL selection.
MaxUrls == 3
\* Largest frequency in such a map.
MaxCount == 2
\* Largest limit applied to such a map.
MaxLimit == 3

\* ------------------------------------------------------------------------
\* Python string and dictionary primitives.
\* ------------------------------------------------------------------------
Whitespace == {" ", "\t", "\n", "\r"}
Quotes == {"\"", "'"}
Digits == {"0", "1", "2", "3", "4", "5", "6", "7", "8", "9"}
Letters ==
    {"a","b","c","d","e","f","g","h","i","j","k","l","m","n","o","p","q",
     "r","s","t","u","v","w","x","y","z","A","B","C","D","E","F","G","H",
     "I","J","K","L","M","N","O","P","Q","R","S","T","U","V","W","X","Y",
     "Z"}
\* urlparse.scheme_chars
SchemeChars == Letters \cup Digits \cup {"+", "-", "."}

Min(a, b) == IF a <= b THEN a ELSE b

\* s[i:] with a 0-based Python index i >= 0
DropFirst(s, i) == SubSeq(s, i + 1, Len(s))
\* s[:i] with a 0-based Python index i >= 0
TakeFirst(s, i) == SubSeq(s, 1, Min(i, Len(s)))

\* s.startswith(p)
StartsWith(s, p) == Len(p) <= Len(s) /\ SubSeq(s, 1, Len(p)) = p

\* sub in s
Contains(sub, s) ==
    \E i \in 0..(Len(s) - Len(sub)) : SubSeq(s, i + 1, i + Len(sub)) = sub

\* s.find(c, start): 0-based index of the first c at or after start, else -1
Find(s, c, start) ==
    LET hits == {i \in start..(Len(s) - 1) : s[i + 1] = c}
    IN  IF hits = {} THEN -1
        ELSE CHOOSE i \in hits : \A j \in hits : i <= j

\* d.get(k, 0) for a dictionary d (a function on its key set)
Get(d, k) == IF k \in DOMAIN d THEN d[k] ELSE 0

\* d after d[k] = v
Put(d, k, v) == [x \in (DOMAIN d) \cup {k} |-> IF x = k THEN v ELSE d[x]]

EmptyDict == [x \in {} |-> 0]

\* shlex.split(line): shlex(line, posix=True) with whitespace_split set and
\* no comment characters. The tokenizer state is the lexer's state (between
\* tokens, inside a word, inside a quote q, after a backslash), the state
\* to return to after an escape, the token being built, and whether the
\* token had a quoted part.
ShlexStep(a, c) ==
    CASE a.state = "ws" ->
            IF c \in Whitespace THEN a
            ELSE IF c = "\\" THEN [a EXCEPT !.state = "esc", !.back = "word"]
            ELSE IF c \in Quotes THEN [a EXCEPT !.state = c, !.quoted = TRUE]
            ELSE [a EXCEPT !.state = "word", !.token = <<c>>]
      [] a.state \in Quotes ->
            IF c = a.state THEN [a EXCEPT !.state = "word"]
            ELSE IF c = "\\" /\ a.state = "\""
                 THEN [a EXCEPT !.state = "esc", !.back = a.state]
            ELSE [a EXCEPT !.token = Append(@, c)]
      [] a.state = "esc" ->
            LET kept == IF a.back \in Quotes /\ c # "\\" /\ c # a.back
                        THEN Append(a.token, "\\") ELSE a.token
            IN  [a EXCEPT !.token = Append(kept, c), !.state = a.back]
      [] OTHER ->
            IF c \in Whitespace
            THEN [a EXCEPT !.state = "ws", !.token = <<>>, !.quoted = FALSE,
                           !.out = IF a.token # <<>> \/ a.quoted
                                   THEN Append(@, a.token) ELSE @]
            ELSE IF c \in Quotes THEN [a EXCEPT !.state = c, !.quoted = TRUE]
            ELSE IF c = "\\" THEN [a EXCEPT !.state = "esc", !.back = "word"]
            ELSE [a EXCEPT !.token = Append(@, c)]

\* The lexer reads the characters s[lo..hi] in order, starting from state a.
\* The range is halved, and the left half is computed before the right half
\* is entered (the test on left.state never succeeds: mid < hi there), so
\* that the evaluation depth stays logarithmic in the line length; the
\* characters are still consumed left to right.
RECURSIVE ShlexRun(_, _, _, _), ShlexRight(_, _, _, _)
ShlexRun(s, lo, hi, a) ==
    IF lo > hi THEN a
    ELSE IF lo = hi THEN ShlexStep(a, s[lo])
    ELSE ShlexRight(s, (lo + hi) \div 2, hi,
                    ShlexRun(s, lo, (lo + hi) \div 2, a))

ShlexRight(s, mid, hi, left) ==
    IF left.state = "ws" /\ mid = hi THEN left
    ELSE ShlexRun(s, mid + 1, hi, left)

ShlexStart ==
    [state |-> "ws", back |-> "word", token |-> <<>>, quoted |-> FALSE,
     out |-> <<>>]

\* The end of the input in lexer state a. [ok |-> FALSE] stands for the
\* ValueError of an unclosed quotation or of a trailing backslash.
ShlexEnd(a) ==
    IF a.state \in Quotes \cup {"esc"} THEN [ok |-> FALSE, tokens |-> <<>>]
    ELSE [ok |-> TRUE,
          tokens |-> IF a.state = "word" /\ (a.token # <<>> \/ a.quoted)
                     THEN Append(a.out, a.token) ELSE a.out]

ShlexSplit(line) == ShlexEnd(ShlexRun(line, 1, Len(line), ShlexStart))

\* s.split(): the words of s between runs of whitespace
RECURSIVE SplitWsRun(_, _, _, _)
SplitWsRun(s, i, word, out) ==
    IF i > Len(s) THEN (IF word = <<>> THEN out ELSE Append(out, word))
    ELSE IF s[i] \in Whitespace
         THEN SplitWsRun(s, i + 1, <<>>,
                         IF word = <<>> THEN out ELSE Append(out, word))
    ELSE SplitWsRun(s, i + 1, Append(word, s[i]), out)

SplitWs(s) == SplitWsRun(s, 1, <<>>, <<>>)

\* s.split(sep) for a one-character sep: always at least one part
RECURSIVE SplitOnRun(_, _, _, _, _)
SplitOnRun(s, sep, i, part, out) ==
    IF i > Len(s) THEN Append(out, part)
    ELSE IF s[i] = sep THEN SplitOnRun(s, sep, i + 1, <<>>, Append(out, part))
    ELSE SplitOnRun(s, sep, i + 1, Append(part, s[i]), out)

SplitOn(s, sep) == SplitOnRun(s, sep, 1, <<>>, <<>>)

\* s.strip()
RECURSIVE Strip(_)
Strip(s) ==
    IF s = <<>> THEN s
    ELSE IF s[1] \in Whitespace THEN Strip(Tail(s))
    ELSE IF s[Len(s)] \in Whitespace THEN Strip(SubSeq(s, 1, Len(s) - 1))
    ELSE s

DigitValue(c) ==
    CASE c = "0" -> 0 [] c = "1" -> 1 [] c = "2" -> 2 [] c = "3" -> 3
      [] c = "4" -> 4 [] c = "5" -> 5 [] c = "6" -> 6 [] c = "7" -> 7
      [] c = "8" -> 8 [] c = "9" -> 9

RECURSIVE DecimalValue(_, _)
DecimalValue(s, acc) ==
    IF s = <<>> THEN acc ELSE DecimalValue(Tail(s), 10 * acc + DigitValue(s[1]))

\* int(s): optional surrounding whitespace, an optional sign, one or more
\* decimal digits; [ok |-> FALSE] stands for the ValueError.
SignedInt(sign, body) ==
    IF body = <<>> \/ \E i \in 1..Len(body) : body[i] \notin Digits
    THEN [ok |-> FALSE, value |-> 0]
    ELSE [ok |-> TRUE,
          value |-> IF sign = "-" THEN 0 - DecimalValue(body, 0)
                    ELSE DecimalValue(body, 0)]

StrippedInt(t) ==
    IF t # <<>> /\ t[1] \in {"+", "-"} THEN SignedInt(t[1], Tail(t))
    ELSE SignedInt("+", t)

ParseInt(s) == StrippedInt(Strip(s))

\* urlparse(url).netloc (Python 2.7 urlsplit). The text before the first
\* ":" is a scheme, and is stripped with the ":", if it is "http", or if it
\* is made of scheme characters and what follows is not a port number.
IsScheme(head, rest) ==
    \/ head = <<"h","t","t","p">>
    \/ /\ \A j \in 1..Len(head) : head[j] \in SchemeChars
       /\ \/ rest = <<>>
          \/ \E j \in 1..Len(rest) : rest[j] \notin Digits

\* i is url.find(":")
StripScheme(url, i) ==
    IF i > 0 /\ IsScheme(TakeFirst(url, i), DropFirst(url, i + 1))
    THEN DropFirst(url, i + 1) ELSE url

\* _splitnetloc(u, 2)[0]: from index 2 to the first of "/", "?", "#"
SplitNetLoc(u) ==
    LET ends == {e \in 2..(Len(u) - 1) : u[e + 1] \in {"/", "?", "#"}}
    IN  SubSeq(u, 3, IF ends = {} THEN Len(u)
                     ELSE CHOOSE e \in ends : \A g \in ends : e <= g)

\* [ok |-> FALSE] stands for the ValueError of a "[" without "]", or the
\* reverse, in the netloc.
CheckedNetLoc(netloc) ==
    [ok |-> ((\E j \in 1..Len(netloc) : netloc[j] = "[")
                <=> (\E j \in 1..Len(netloc) : netloc[j] = "]")),
     netloc |-> netloc]

\* u is the url without its scheme
NetLocOf(u) ==
    IF TakeFirst(u, 2) = <<"/", "/">> THEN CheckedNetLoc(SplitNetLoc(u))
    ELSE [ok |-> TRUE, netloc |-> <<>>]

NetLoc(url) == NetLocOf(StripScheme(url, Find(url, ":", 0)))

\* ------------------------------------------------------------------------
\* Input lines. Every log line a file yields is one of these (each ends
\* with the newline the file iterator keeps). Lines 1-7 are accepted by
\* parse_log_file; 8-13 raise in it.
\* ------------------------------------------------------------------------
\* '1.2.3.4 - - [10/Oct/2000 -0700] '
LinePrefix ==
    <<"1",".","2",".","3",".","4"," ","-"," ","-"," ","[","1","0","/","O","c",
      "t","/","2","0","0","0"," ","-","0","7","0","0","]"," ">>
\* "GET /bob/a HTTP/1.1" 200 100 "http://www.example.com/p" "UA x"   -> {'req': '/bob/a', 'code': '200', 'b': 100, 'netloc': 'www.example.com', 'user': 'bob', 'toks': 10}
Line1 ==
    LinePrefix \o
    <<"\"","G","E","T"," ","/","b","o","b","/","a"," ","H","T","T","P","/",
      "1",".","1","\""," ","2","0","0"," ","1","0","0"," ","\"","h","t","t",
      "p",":","/","/","w","w","w",".","e","x","a","m","p","l","e",".","c","o",
      "m","/","p","\""," ","\"","U","A"," ","x","\"","\n">>
\* "GET /bob/a HTTP/1.1" 404 7 "-" "UA"   -> {'req': '/bob/a', 'code': '404', 'b': 7, 'netloc': '', 'user': 'bob', 'toks': 10}
Line2 ==
    LinePrefix \o
    <<"\"","G","E","T"," ","/","b","o","b","/","a"," ","H","T","T","P","/",
      "1",".","1","\""," ","4","0","4"," ","7"," ","\"","-","\""," ","\"","U",
      "A","\"","\n">>
\* "GET /bob/a HTTP/1.1" 200 50 "http://example.com/" "UA"   -> {'req': '/bob/a', 'code': '200', 'b': 50, 'netloc': 'example.com', 'user': 'bob', 'toks': 10}
Line3 ==
    LinePrefix \o
    <<"\"","G","E","T"," ","/","b","o","b","/","a"," ","H","T","T","P","/",
      "1",".","1","\""," ","2","0","0"," ","5","0"," ","\"","h","t","t","p",
      ":","/","/","e","x","a","m","p","l","e",".","c","o","m","/","\""," ",
      "\"","U","A","\"","\n">>
\* "GET /al/b HTTP/1.1" 206 3 "http://other.org/example.com" "UA"   -> {'req': '/al/b', 'code': '206', 'b': 3, 'netloc': 'other.org', 'user': 'al', 'toks': 10}
Line4 ==
    LinePrefix \o
    <<"\"","G","E","T"," ","/","a","l","/","b"," ","H","T","T","P","/","1",
      ".","1","\""," ","2","0","6"," ","3"," ","\"","h","t","t","p",":","/",
      "/","o","t","h","e","r",".","o","r","g","/","e","x","a","m","p","l","e",
      ".","c","o","m","\""," ","\"","U","A","\"","\n">>
\* "GET / HTTP/1.1" 200 2 "http://example.com.evil.org:80/x" "UA"   -> {'req': '/', 'code': '200', 'b': 2, 'netloc': 'example.com.evil.org:80', 'user': '', 'toks': 10}
Line5 ==
    LinePrefix \o
    <<"\"","G","E","T"," ","/"," ","H","T","T","P","/","1",".","1","\""," ",
      "2","0","0"," ","2"," ","\"","h","t","t","p",":","/","/","e","x","a",
      "m","p","l","e",".","c","o","m",".","e","v","i","l",".","o","r","g",":",
      "8","0","/","x","\""," ","\"","U","A","\"","\n">>
\* 'POST /al/b HTTP/1.0' 302 0 example.com/p   -> {'req': '/al/b', 'code': '302', 'b': 0, 'netloc': '', 'user': 'al', 'toks': 9}
Line6 ==
    LinePrefix \o
    <<"'","P","O","S","T"," ","/","a","l","/","b"," ","H","T","T","P","/","1",
      ".","0","'"," ","3","0","2"," ","0"," ","e","x","a","m","p","l","e",".",
      "c","o","m","/","p","\n">>
\* "GET al/b HTTP/1.1" 200 1 "//example.com/x" "UA"   -> {'req': 'al/b', 'code': '200', 'b': 1, 'netloc': 'example.com', 'user': 'b', 'toks': 10}
Line7 ==
    LinePrefix \o
    <<"\"","G","E","T"," ","a","l","/","b"," ","H","T","T","P","/","1",".",
      "1","\""," ","2","0","0"," ","1"," ","\"","/","/","e","x","a","m","p",
      "l","e",".","c","o","m","/","x","\""," ","\"","U","A","\"","\n">>
\* "GET /bob/a HTTP/1.1 200 100 "-"   -> ValueError('No closing quotation')
Line8 ==
    LinePrefix \o
    <<"\"","G","E","T"," ","/","b","o","b","/","a"," ","H","T","T","P","/",
      "1",".","1"," ","2","0","0"," ","1","0","0"," ","\"","-","\"","\n">>
\* "GET /bob/a HTTP/1.1" 200 100   -> IndexError('list index out of range')
Line9 ==
    LinePrefix \o
    <<"\"","G","E","T"," ","/","b","o","b","/","a"," ","H","T","T","P","/",
      "1",".","1","\""," ","2","0","0"," ","1","0","0","\n">>
\* "-" 408 0 "-" "-"   -> IndexError('list index out of range')
Line10 ==
    LinePrefix \o
    <<"\"","-","\""," ","4","0","8"," ","0"," ","\"","-","\""," ","\"","-",
      "\"","\n">>
\* "OPTIONS * HTTP/1.0" 200 0 "-" "UA"   -> IndexError('list index out of range')
Line11 ==
    LinePrefix \o
    <<"\"","O","P","T","I","O","N","S"," ","*"," ","H","T","T","P","/","1",
      ".","0","\""," ","2","0","0"," ","0"," ","\"","-","\""," ","\"","U","A",
      "\"","\n">>
\* "GET /bob/a HTTP/1.1" 304 - "-" "UA"   -> ValueError("invalid literal for int() with base 10: '-'")
Line12 ==
    LinePrefix \o
    <<"\"","G","E","T"," ","/","b","o","b","/","a"," ","H","T","T","P","/",
      "1",".","1","\""," ","3","0","4"," ","-"," ","\"","-","\""," ","\"","U",
      "A","\"","\n">>
\* a blank line
Line13 == <<"\n">>

Catalogue ==
    <<Line1, Line2, Line3, Line4, Line5, Line6, Line7, Line8, Line9, Line10,
      Line11, Line12, Line13>>

LineIds == 1..Len(Catalogue)

\* ------------------------------------------------------------------------
\* parse_log_file: the body of the loop over the lines of a file.
\* ------------------------------------------------------------------------
Raise(kind) == [ok |-> FALSE, error |-> kind]

\* Lines 88-93: the tokens, then request, http_code, bytes, referrer (the
\* tuple's elements are evaluated left to right) and username. A Python
\* index i is the TLA+ index i + 1. Each step hands what it has computed to
\* the next one.

\* FieldsWithUser with index 0 in place of index 1 at line 93
FieldsWithUserIndex0(record_tokens, request, bytes, segments) ==
    IF Len(segments) < 2 THEN Raise("IndexError")
    ELSE [ok |-> TRUE, error |-> "none",
          request |-> request,
          http_code |-> record_tokens[HTTP_CODE_INDEX + 1],
          bytes |-> bytes,
          referrer |-> record_tokens[REFERRER_INDEX + 1],
          username |-> segments[1]]

\* Line 93: segments is request.split("/")
FieldsWithUser(record_tokens, request, bytes, segments) ==
    IF Len(segments) < 2 THEN Raise("IndexError")
    ELSE [ok |-> TRUE, error |-> "none",
          request |-> request,
          http_code |-> record_tokens[HTTP_CODE_INDEX + 1],
          bytes |-> bytes,
          referrer |-> record_tokens[REFERRER_INDEX + 1],
          username |-> segments[2]]

\* Lines 91-92: bytes is int(record_tokens[BYTES_INDEX])
FieldsWithBytes(record_tokens, request, bytes) ==
    IF ~bytes.ok THEN Raise("ValueError")
    ELSE IF Len(record_tokens) < REFERRER_INDEX + 1 THEN Raise("IndexError")
    ELSE FieldsWithUser(record_tokens, request, bytes.value,
                        SplitOn(request, "/"))

\* Lines 89-91: words is record_tokens[REQUEST_INDEX].split()
FieldsWithRequest(record_tokens, words) ==
    IF Len(words) < 2 THEN Raise("IndexError")
    ELSE IF Len(record_tokens) < BYTES_INDEX + 1 THEN Raise("IndexError")
    ELSE FieldsWithBytes(record_tokens, words[2],
                         ParseInt(record_tokens[BYTES_INDEX + 1]))

\* Lines 88-89: split is the outcome of shlex.split
FieldsOfTokens(split) ==
    IF ~split.ok THEN Raise("ValueError")
    ELSE IF Len(split.tokens) < REQUEST_INDEX + 1 THEN Raise("IndexError")
    ELSE FieldsWithRequest(split.tokens,
                           SplitWs(split.tokens[REQUEST_INDEX + 1]))

ExtractFields(record_line) == FieldsOfTokens(ShlexSplit(record_line))

\* Line 99: the record counts for popular_urls
IsSuccess(http_code) == StartsWith(http_code, HTTP_SUCCESS_CODE)

\* Line 103: the request is off-site
IsOffsite(netloc) == ~Contains(ONSITE, netloc)

\* What lines 88-103 compute from the text of one line, before any counter
\* is looked at: the fields, and the two tests of lines 99 and 103. A
\* ValueError of urlparse (line 103) leaves the function like the others.
FactsWithHost(x, host) ==
    IF ~host.ok THEN Raise("ValueError")
    ELSE [ok |-> TRUE, error |-> "none",
          request |-> x.request,
          username |-> x.username,
          bytes |-> x.bytes,
          success |-> IsSuccess(x.http_code),
          offsite |-> IsOffsite(host.netloc)]

FactsOfFields(x) ==
    IF ~x.ok THEN Raise(x.error) ELSE FactsWithHost(x, NetLoc(x.referrer))

LineFacts(record_line) == FactsOfFields(ExtractFields(record_line))

\* Accumulate without the test of line 99: every record counts for
\* popular_urls, whatever its status
AccumulateAnyStatus(f, x) ==
    [ok |-> TRUE, error |-> "none",
     total_records |-> f.total_records + 1,
     total_offsite_requests |->
         f.total_offsite_requests + (IF x.offsite THEN 1 ELSE 0),
     customers_usage |->
         Put(f.customers_usage, x.username,
             Get(f.customers_usage, x.username) + x.bytes),
     popular_urls |->
         Put(f.popular_urls, x.request, Get(f.popular_urls, x.request) + 1)]

\* Lines 96-106 on the function's local variables f, for the facts x of a
\* line that raised nothing.
Accumulate(f, x) ==
    [ok |-> TRUE, error |-> "none",
     total_records |-> f.total_records + 1,
     total_offsite_requests |->
         f.total_offsite_requests + (IF x.offsite THEN 1 ELSE 0),
     customers_usage |->
         Put(f.customers_usage, x.username,
             Get(f.customers_usage, x.username) + x.bytes),
     popular_urls |->
         IF x.success
         THEN Put(f.popular_urls, x.request, Get(f.popular_urls, x.request) + 1)
         ELSE f.popular_urls]

\* ParseLine with the body of the loop in a try/except that passes: a line
\* that raises is skipped
ParseLineSkipping(f, x) == IF x.ok THEN Accumulate(f, x) ELSE f

\* One iteration of the loop of lines 85-106 for a line with facts x: the
\* new values of the local variables, or the exception that leaves
\* parse_log_file.
ParseLine(f, x) == IF x.ok THEN Accumulate(f, x) ELSE Raise(x.error)

\* The facts of every catalogue line, in the catalogue's order. They depend
\* on the text of the line alone; the variable facts holds them, so that no
\* step computes them again.
Facts ==
    <<LineFacts(Line1), LineFacts(Line2), LineFacts(Line3), LineFacts(Line4),
      LineFacts(Line5), LineFacts(Line6), LineFacts(Line7), LineFacts(Line8),
      LineFacts(Line9), LineFacts(Line10), LineFacts(Line11),
      LineFacts(Line12), LineFacts(Line13)>>

\* Lines 79-82
NoRecords ==
    [ok |-> TRUE, error |-> "none", total_records |-> 0,
     total_offsite_requests |-> 0, customers_usage |-> EmptyDict,
     popular_urls |-> EmptyDict]

\* ------------------------------------------------------------------------
\* LogResults objects and the dictionaries they refer to.
\*
\* A dictionary is an object on the heap: heap maps a reference to the
\* dictionary's contents. The two `{}` defaults of LogResults.__init__ are
\* evaluated once, when the def statement runs, so every LogResults built
\* without those arguments refers to the same two dictionaries.
\* ------------------------------------------------------------------------
\* A reference names the variable or parameter the dictionary was created
\* for and the record slot it was created in ("def" for the defaults).
DefaultCustomerUsage == <<"customer_usage", "def">>
DefaultPopularUrls == <<"popular_urls", "def">>

\* The heap once the module is loaded. A 3-tuple of requests is
\* (total_offsite_requests, total_records, percentage_offsite_requests).
EmptyHeap ==
    (DefaultCustomerUsage :> EmptyDict) @@ (DefaultPopularUrls :> EmptyDict)

\* LogResults.__init__ (lines 37-47); requests is a tuple, the other two
\* are references.
LogResults(requests, customer_usage, popular_urls) ==
    [requests |-> IF Len(requests) = 0 THEN <<0, 0, 0>> ELSE requests,
     customer_usage |-> customer_usage,
     popular_urls |-> popular_urls]

\* LogResults()
DefaultLogResults == LogResults(<<>>, DefaultCustomerUsage, DefaultPopularUrls)

\* for k in keys: heap[target][k] = heap[d1].get(k, 0) + heap[d2].get(k, 0)
\* Each iteration reads the heap as the earlier iterations left it. An
\* iteration reads and writes key k only, so the order of the set's
\* iteration does not show in the result.
RECURSIVE SumLoop(_, _, _, _, _), SumKey(_, _, _, _, _, _)
SumLoop(h, keys, target, d1, d2) ==
    IF keys = {} THEN h
    ELSE SumKey(h, keys, CHOOSE k \in keys : TRUE, target, d1, d2)

\* SumKey with rec1 written for rec2 on the right of the sum
SumKeyFirstTwice(h, keys, k, target, d1, d2) ==
    SumLoop([h EXCEPT ![target] = Put(@, k, Get(h[d1], k) + Get(h[d1], k))],
            keys \ {k}, target, d1, d2)

SumKey(h, keys, k, target, d1, d2) ==
    SumLoop([h EXCEPT ![target] = Put(@, k, Get(h[d1], k) + Get(h[d2], k))],
            keys \ {k}, target, d1, d2)

\* Lines 61-62, for the record of line 58
SumUsage(h, record, rec1, rec2) ==
    SumLoop(h,
            (DOMAIN h[rec1.customer_usage]) \cup (DOMAIN h[rec2.customer_usage]),
            record.customer_usage, rec1.customer_usage, rec2.customer_usage)

\* Line 65
SumRequests(rec1, rec2) ==
    <<rec1.requests[1] + rec2.requests[1], rec1.requests[2] + rec2.requests[2]>>

\* Lines 65-71, on the heap h1 that lines 61-62 left
SumUrls(h1, record, rec1, rec2) ==
    [heap |-> SumLoop(h1,
                      (DOMAIN h1[rec1.popular_urls])
                          \cup (DOMAIN h1[rec2.popular_urls]),
                      record.popular_urls, rec1.popular_urls,
                      rec2.popular_urls),
     record |-> [record EXCEPT !.requests = SumRequests(rec1, rec2)]]

\* reduce_records(rec1, rec2) on heap h (lines 55-71): the heap it leaves
\* and the record it returns. Line 58 builds the record with LogResults().
reduce_records(h, rec1, rec2) ==
    SumUrls(SumUsage(h, DefaultLogResults, rec1, rec2),
            DefaultLogResults, rec1, rec2)

\* What a record holds at one moment: its counters and the contents of the
\* dictionaries it refers to.
ValueOf(h, rec) ==
    [offsite |-> rec.requests[1],
     total |-> rec.requests[2],
     customer_usage |-> h[rec.customer_usage],
     popular_urls |-> h[rec.popular_urls]]

\* ------------------------------------------------------------------------
\* The report of __main__ (lines 139-152).
\* ------------------------------------------------------------------------
\* n / d rounded to the nearest integer, for n >= 0 and d > 0: the value a
\* "%.2f" conversion prints, counted in hundredths.
RoundDiv(n, d) == (n \div d) + (IF 2 * (n % d) >= d THEN 1 ELSE 0)

\* Line 139, in hundredths of a percent. The caller has checked that
\* requests[1] is not 0.
percentage_offsite_requests(requests) ==
    RoundDiv(requests[1] * 10000, requests[2])

\* The sequences that list every element of the set S once: the orders in
\* which a dictionary with key set S may be iterated.
Orders(S) ==
    {o \in [1..Cardinality(S) -> S] : \A i, j \in DOMAIN o : o[i] = o[j] => i = j}

\* d.items() when d is iterated in the given order of its keys
Items(d, order) == [i \in DOMAIN order |-> <<order[i], d[order[i]]>>]

\* sorted(items, key=lambda x: x[1], reverse=True): the sort is stable, also
\* with reverse=True, so items with equal counts keep their order. Each
\* item is inserted after the sorted items whose count is at least its own.
RECURSIVE SortedByCount(_, _)
SortedByCount(items, done) ==
    IF items = <<>> THEN done
    ELSE LET x == Head(items)
             before == {i \in 0..Len(done) :
                           \A j \in 1..i : done[j][2] >= x[2]}
             pos == CHOOSE i \in before : \A j \in before : j <= i
         IN  SortedByCount(Tail(items),
                 SubSeq(done, 1, pos) \o <<x>> \o SubSeq(done, pos + 1, Len(done)))

\* TopUrls without the sort of line 146
TopUrlsUnsorted(items, limit) == TakeFirst(items, limit)

\* Line 146: sorted(..., reverse=True)[:limit]
TopUrls(items, limit) == TakeFirst(SortedByCount(items, <<>>), limit)

\* Line 152: one printed line per customer, usage / GIGABYTE to two
\* decimals (in hundredths of a gigabyte).
UsageLines(customer_usage) ==
    {<<RoundDiv(customer_usage[c] * 100, GIGABYTE), c>> :
        c \in DOMAIN customer_usage}

driverVars ==
    <<pc, argc, log_files, log_file, locals, lines_read, rec_result,
      aggregate_results, error, output, seen>>
clientVars == <<recs, calls, grouping>>
topVars == <<freq_items, top_limit, selection>>
vars == <<driverVars, heap, facts, clientVars, topVars>>

\* A variable that is not bound (rec_result before line 136 and once line
\* 137 has read it, aggregate_results before line 134).
Unbound == [requests |-> <<>>, customer_usage |-> <<"none", "none">>,
            popular_urls |-> <<"none", "none">>]

\* __main__ is not running: parse_log_file, reduce_records or the selection
\* of line 146 is used on its own.
DriverIdle ==
    /\ argc = 0 /\ log_files = <<>> /\ log_file = <<>>
    /\ locals = NoRecords /\ lines_read = 0
    /\ rec_result = Unbound /\ aggregate_results = Unbound
    /\ error = "none" /\ output = <<>> /\ seen = EmptyBag

ClientIdle == recs = <<>> /\ calls = <<>> /\ grouping = "none"

TopIdle == freq_items = <<>> /\ top_limit = 0 /\ selection = <<>>

\* ------------------------------------------------------------------------
\* __main__ (lines 124-152).
\* ------------------------------------------------------------------------
\* The names os.listdir may return: one hidden file and MaxFiles log files.
NameChars == <<"a", "b", "c", "d", "e", "f", "g", "h">>
FileNames == {<<".", "x">>} \cup {<<NameChars[i]>> : i \in 1..MaxFiles}
Listings == UNION {Orders(S) : S \in SUBSET FileNames}

\* os.path.join(dir_name, file_name) for a dir_name without trailing "/"
PathJoin(dir_name, file_name) == dir_name \o <<"/">> \o file_name

\* Line 116, for the names os.listdir(dir_name) returned
log_files_in_directory(dir_name, names) ==
    LET Shown(file_name) == ~StartsWith(file_name, <<".">>)
        kept == SelectSeq(names, Shown)
    IN  [i \in DOMAIN kept |-> PathJoin(dir_name, kept[i])]

DirName == <<"l", "o", "g", "s">>

\* The references of the two dictionaries parse_log_file creates (lines
\* 81-82) for the record in the given slot.
UsageRef(slot) == <<"customers_usage", slot>>
UrlsRef(slot) == <<"popular_urls", slot>>

\* Line 108: the record parse_log_file returns for the locals x, its
\* dictionaries stored in the given slot of heap h.
ParseResult(h, x, slot) ==
    [heap |-> (UsageRef(slot) :> x.customers_usage)
                  @@ (UrlsRef(slot) :> x.popular_urls) @@ h,
     record |-> LogResults(<<x.total_offsite_requests, x.total_records>>,
                           UsageRef(slot), UrlsRef(slot))]

\* The heap without the dictionaries of the given slot.
Release(h, slot) ==
    [r \in (DOMAIN h) \ {UsageRef(slot), UrlsRef(slot)} |-> h[r]]

InitDriver ==
    /\ pc = "start"
    /\ argc \in {1, 2}
    /\ log_files = <<>> /\ log_file = <<>>
    /\ locals = NoRecords /\ lines_read = 0
    /\ rec_result = Unbound /\ aggregate_results = Unbound
    /\ heap = EmptyHeap
    /\ error = "none" /\ output = <<>> /\ seen = EmptyBag
    /\ facts = Facts
    /\ ClientIdle /\ TopIdle

\* Lines 127-129: no directory argument.
Usage ==
    /\ pc = "start" /\ argc < 2
    /\ output' = <<[kind |-> "help"]>>
    /\ error' = "SystemExit"
    /\ pc' = "exited"
    /\ UNCHANGED <<argc, log_files, log_file, locals, lines_read, rec_result,
                   aggregate_results, heap, seen, facts, clientVars, topVars>>

\* Lines 131-134: list the directory, build the empty aggregate.
ListDirectory ==
    /\ pc = "start" /\ argc >= 2
    /\ \E names \in Listings :
           log_files' = log_files_in_directory(DirName, names)
    /\ aggregate_results' = DefaultLogResults
    /\ pc' = "loop"
    /\ UNCHANGED <<argc, log_file, locals, lines_read, rec_result, heap,
                   error, output, seen, facts, clientVars, topVars>>

\* Lines 135-136 and 79-84: the loop takes the next file and enters
\* parse_log_file for it.
OpenFile ==
    /\ pc = "loop" /\ log_files # <<>>
    /\ log_file' = Head(log_files)
    /\ log_files' = Tail(log_files)
    /\ locals' = NoRecords
    /\ lines_read' = 0
    /\ pc' = "read"
    /\ UNCHANGED <<argc, rec_result, aggregate_results, heap, error, output,
                   seen, facts, clientVars, topVars>>

\* An exception is caught nowhere: the process ends with a traceback, and
\* what it held in memory is gone. Nothing has been printed before.
Crash(kind) ==
    /\ pc' = "crashed"
    /\ error' = kind
    /\ log_files' = <<>> /\ log_file' = <<>>
    /\ locals' = NoRecords /\ lines_read' = 0
    /\ rec_result' = Unbound /\ aggregate_results' = Unbound
    /\ heap' = EmptyHeap
    /\ UNCHANGED <<argc, output>>

\* Lines 85-106: the file yields one more line, catalogue line l.
ReadLine(l) ==
    /\ pc = "read" /\ lines_read < MaxLines
    /\ seen' = seen (+) SetToBag({l})
    /\ LET x == ParseLine(locals, facts[l])
       IN  IF x.ok
           THEN /\ locals' = x
                /\ lines_read' = lines_read + 1
                /\ UNCHANGED <<pc, argc, log_files, log_file, rec_result,
                               aggregate_results, heap, error, output>>
           ELSE Crash(x.error)
    /\ UNCHANGED <<facts, clientVars, topVars>>

\* Line 108: the file is exhausted; parse_log_file returns.
EndOfFile ==
    /\ pc = "read"
    /\ LET r == ParseResult(heap, locals, "rec_result")
       IN  /\ heap' = r.heap
           /\ rec_result' = r.record
    /\ locals' = NoRecords
    /\ lines_read' = 0
    /\ pc' = "merge"
    /\ UNCHANGED <<argc, log_files, log_file, aggregate_results, error,
                   output, seen, facts, clientVars, topVars>>

\* Line 137. rec_result and log_file are rebound before they are read
\* again, so they and the dictionaries of rec_result are dropped here.
Merge ==
    /\ pc = "merge"
    /\ LET r == reduce_records(heap, aggregate_results, rec_result)
       IN  /\ aggregate_results' = r.record
           /\ heap' = Release(r.heap, "rec_result")
    /\ rec_result' = Unbound
    /\ log_file' = <<>>
    /\ pc' = "loop"
    /\ UNCHANGED <<argc, log_files, locals, lines_read, error, output, seen,
                   facts, clientVars, topVars>>

\* Lines 139-152, after the last file. The division of line 139 comes
\* before the first print. The two dictionaries are iterated in an order
\* the language leaves open; the customer lines are kept as a set.
Report ==
    /\ pc = "loop" /\ log_files = <<>>
    /\ IF aggregate_results.requests[2] = 0
       THEN Crash("ZeroDivisionError")
       ELSE /\ \E o \in Orders(DOMAIN heap[aggregate_results.popular_urls]) :
                  output' =
                      <<[kind |-> "offsite",
                         offsite |-> aggregate_results.requests[1],
                         total |-> aggregate_results.requests[2],
                         percent |-> percentage_offsite_requests(
                                         aggregate_results.requests)],
                        [kind |-> "top",
                         limit |-> POPULAR_URLS_LIMIT,
                         urls |-> TopUrls(
                             Items(heap[aggregate_results.popular_urls], o),
                             POPULAR_URLS_LIMIT)],
                        [kind |-> "usage",
                         lines |-> UsageLines(
                             heap[aggregate_results.customer_usage])]>>
            /\ pc' = "done"
            /\ UNCHANGED <<argc, log_files, log_file, locals, lines_read,
                           rec_result, aggregate_results, heap, error>>
    /\ UNCHANGED <<seen, facts, clientVars, topVars>>

NextDriver ==
    \/ Usage
    \/ ListDirectory
    \/ OpenFile
    \/ \E l \in LineIds : ReadLine(l)
    \/ EndOfFile
    \/ Merge
    \/ Report

Spec == InitDriver /\ [][NextDriver]_vars


\* ------------------------------------------------------------------------
\* A client of the module: it parses two files, builds one LogResults(),
\* and calls reduce_records on the records it holds, results of earlier
\* calls included.
\* ------------------------------------------------------------------------
\* The catalogue lines that parse_log_file accumulates
GoodLines == {l \in LineIds : Facts[l].ok}

\* The contents of a client's file: no line, or one line that parses
ClientFiles == {<<>>} \cup {<<l>> : l \in GoodLines}

\* parse_log_file's locals at line 108 for such a file
ParseFile(lines) ==
    IF lines = <<>> THEN NoRecords ELSE ParseLine(NoRecords, Facts[lines[1]])

\* recs[i] = parse_log_file(file), on heap h
ParseInto(h, file, slot) == ParseResult(h, ParseFile(file), slot)

\* What the log keeps of the call reduce_records(recs[i], recs[j]) that
\* returned r on heap h: the arguments' values when the call was made and
\* the returned record's value when it returned.
CallRecord(h, i, j, r) ==
    [rec1 |-> i, rec2 |-> j,
     in1 |-> ValueOf(h, recs[i]),
     in2 |-> ValueOf(h, recs[j]),
     out |-> ValueOf(r.heap, r.record)]

\* recs.append(reduce_records(recs[i], recs[j]))
Call(i, j, r) ==
    /\ heap' = r.heap
    /\ recs' = Append(recs, r.record)
    /\ calls' = Append(calls, CallRecord(heap, i, j, r))

InitMerge ==
    /\ pc = "client"
    /\ DriverIdle /\ TopIdle
    /\ facts = Facts
    /\ grouping = "none"
    /\ calls = <<>>
    /\ \E f1, f2 \in ClientFiles :
           /\ heap = ParseInto(ParseInto(EmptyHeap, f1, "p1").heap, f2, "p2").heap
           /\ recs = <<ParseInto(EmptyHeap, f1, "p1").record,
                       ParseInto(EmptyHeap, f2, "p2").record,
                       DefaultLogResults>>

Reduce(i, j) ==
    /\ pc = "client" /\ Len(calls) < MaxCalls
    /\ Call(i, j, reduce_records(heap, recs[i], recs[j]))
    /\ UNCHANGED <<driverVars, facts, grouping, topVars>>

NextMerge == \E i, j \in DOMAIN recs : Reduce(i, j)

SpecMerge == InitMerge /\ [][NextMerge]_vars

\* ------------------------------------------------------------------------
\* A client that evaluates both groupings of three parsed records a, b, c
\* in one run: reduce_records(reduce_records(a, b), c) and
\* reduce_records(a, reduce_records(b, c)), in either order.
\* ------------------------------------------------------------------------
InitAssoc ==
    /\ pc = "groupings"
    /\ DriverIdle /\ TopIdle
    /\ facts = Facts
    /\ grouping \in {"left", "right"}
    /\ calls = <<>>
    /\ \E f1, f2, f3 \in ClientFiles :
           /\ heap = ParseInto(ParseInto(ParseInto(EmptyHeap, f1, "a").heap,
                                         f2, "b").heap, f3, "c").heap
           /\ recs = <<ParseInto(EmptyHeap, f1, "a").record,
                       ParseInto(EmptyHeap, f2, "b").record,
                       ParseInto(EmptyHeap, f3, "c").record>>

\* The script of the run: the grouping named by `grouping` comes first.
Script ==
    IF grouping = "left" THEN <<"ab", "ab_c", "bc", "a_bc">>
    ELSE <<"bc", "a_bc", "ab", "ab_c">>

IsNext(name) ==
    /\ pc = "groupings"
    /\ Len(calls) < Len(Script)
    /\ Script[Len(calls) + 1] = name

\* The index in recs of the result bound to the name
ResultOf(name) == 3 + CHOOSE n \in DOMAIN calls : calls[n].name = name

Named(name, i, j, r) ==
    /\ heap' = r.heap
    /\ recs' = Append(recs, r.record)
    /\ calls' = Append(calls, [name |-> name] @@ CallRecord(heap, i, j, r))
    /\ UNCHANGED <<pc, driverVars, facts, grouping, topVars>>

\* ab = reduce_records(a, b)
ReduceAB == IsNext("ab") /\ Named("ab", 1, 2, reduce_records(heap, recs[1], recs[2]))

\* ab_c = reduce_records(ab, c)
ReduceAB_C ==
    /\ IsNext("ab_c")
    /\ Named("ab_c", ResultOf("ab"), 3,
             reduce_records(heap, recs[ResultOf("ab")], recs[3]))

\* bc = reduce_records(b, c)
ReduceBC == IsNext("bc") /\ Named("bc", 2, 3, reduce_records(heap, recs[2], recs[3]))

\* a_bc = reduce_records(a, bc)
ReduceA_BC ==
    /\ IsNext("a_bc")
    /\ Named("a_bc", 1, ResultOf("bc"),
             reduce_records(heap, recs[1], recs[ResultOf("bc")]))

NextAssoc == ReduceAB \/ ReduceAB_C \/ ReduceBC \/ ReduceA_BC

SpecAssoc == InitAssoc /\ [][NextAssoc]_vars

\* ------------------------------------------------------------------------
\* The selection of line 146 on its own: any frequency map over MaxUrls
\* URLs with counts up to MaxCount, iterated in any order, and a limit up
\* to MaxLimit or the program's POPULAR_URLS_LIMIT.
\* ------------------------------------------------------------------------
Urls == {<<"/", NameChars[i]>> : i \in 1..MaxUrls}

FrequencyMaps == UNION {[S -> 1..MaxCount] : S \in SUBSET Urls}

Limits == (0..MaxLimit) \cup {POPULAR_URLS_LIMIT}

InitTopK ==
    /\ pc = "select"
    /\ DriverIdle /\ ClientIdle
    /\ facts = Facts
    /\ heap = EmptyHeap
    /\ \E d \in FrequencyMaps : \E o \in Orders(DOMAIN d) :
           freq_items = Items(d, o)
    /\ top_limit \in Limits
    /\ selection = <<>>

Select ==
    /\ pc = "select"
    /\ selection' = TopUrls(freq_items, top_limit)
    /\ pc' = "selected"
    /\ UNCHANGED <<argc, log_files, log_file, locals, lines_read, rec_result,
                   aggregate_results, error, output, seen, heap, facts,
                   clientVars, freq_items, top_limit>>

NextTopK == Select

SpecTopK == InitTopK /\ [][NextTopK]_vars

\* ------------------------------------------------------------------------
\* What the properties are stated against: the records of the catalogue
\* lines as a reader of the lines sees them, written down from the text of
\* each line and not computed by the operators above.
\* ------------------------------------------------------------------------
Bob == <<"b", "o", "b">>
Al == <<"a", "l">>
PathBobA == <<"/", "b", "o", "b", "/", "a">>
PathAlB == <<"/", "a", "l", "/", "b">>
PathRoot == <<"/">>
PathNoLead == <<"a", "l", "/", "b">>
PathStar == <<"*">>

\* Lines 1 to 7 are well formed. host is the referrer's host ("" when the
\* referrer names none) and so onsite tells whether it contains
\* "example.com"; status2xx tells whether the status starts with "2".
Expected ==
    <<[customer |-> Bob, path |-> PathBobA, bytes |-> 100,
       status2xx |-> TRUE, onsite |-> TRUE],       \* 200, www.example.com
      [customer |-> Bob, path |-> PathBobA, bytes |-> 7,
       status2xx |-> FALSE, onsite |-> FALSE],     \* 404, referrer "-"
      [customer |-> Bob, path |-> PathBobA, bytes |-> 50,
       status2xx |-> TRUE, onsite |-> TRUE],       \* 200, example.com
      [customer |-> Al, path |-> PathAlB, bytes |-> 3,
       status2xx |-> TRUE, onsite |-> FALSE],      \* 206, other.org
      [customer |-> <<>>, path |-> PathRoot, bytes |-> 2,
       status2xx |-> TRUE, onsite |-> TRUE],       \* 200, example.com.evil.org:80
      [customer |-> Al, path |-> PathAlB, bytes |-> 0,
       status2xx |-> FALSE, onsite |-> FALSE],     \* 302, referrer example.com/p
      [customer |-> <<"b">>, path |-> PathNoLead, bytes |-> 1,
       status2xx |-> TRUE, onsite |-> TRUE]>>      \* 200, //example.com/x

\* Lines 8 to 13 are malformed: an unclosed quote, eight tokens, a request
\* of one word, a request target without "/", the byte count "-", a blank
\* line.
Malformed == 8..13

\* The request target of the lines whose request has one.
RequestTarget ==
    (1 :> PathBobA) @@ (2 :> PathBobA) @@ (3 :> PathBobA) @@ (4 :> PathAlB)
        @@ (5 :> PathRoot) @@ (6 :> PathAlB) @@ (7 :> PathNoLead)
        @@ (9 :> PathBobA) @@ (11 :> PathStar) @@ (12 :> PathBobA)

\* The sum of w[l] over the lines l of S, each counted as often as the
\* files yielded it.
RECURSIVE SeenSum(_, _)
SeenSum(S, w) ==
    IF S = {} THEN 0
    ELSE LET l == CHOOSE m \in S : TRUE
         IN  CopiesIn(l, seen) * w[l] + SeenSum(S \ {l}, w)

SeenLines == BagToSet(seen)

ExpectedUsage ==
    [c \in {Expected[l].customer : l \in SeenLines} |->
        SeenSum({l \in SeenLines : Expected[l].customer = c},
                [l \in SeenLines |-> Expected[l].bytes])]

ExpectedUrls ==
    [u \in {Expected[l].path : l \in {m \in SeenLines : Expected[m].status2xx}} |->
        SeenSum({l \in SeenLines : Expected[l].path = u /\ Expected[l].status2xx},
                [l \in SeenLines |-> 1])]

ExpectedValue ==
    [offsite |-> SeenSum({l \in SeenLines : ~Expected[l].onsite},
                         [l \in SeenLines |-> 1]),
     total |-> BagCardinality(seen),
     customer_usage |-> ExpectedUsage,
     popular_urls |-> ExpectedUrls]

\* A step of parse_log_file's loop that reads line l
Reads(l) == pc = "read" /\ CopiesIn(l, seen') > CopiesIn(l, seen)

\* The key-wise sum of two mappings over the union of their keys
KeywiseSum(d1, d2) ==
    [k \in (DOMAIN d1) \cup (DOMAIN d2) |-> Get(d1, k) + Get(d2, k)]

SumOfValues(v1, v2) ==
    [offsite |-> v1.offsite + v2.offsite,
     total |-> v1.total + v2.total,
     customer_usage |-> KeywiseSum(v1.customer_usage, v2.customer_usage),
     popular_urls |-> KeywiseSum(v1.popular_urls, v2.popular_urls)]

\* The value reduce_records(recs[i], recs[j]) returns when called now
ReturnedValue(r) == ValueOf(r.heap, r.record)
Returned(i, j) == ReturnedValue(reduce_records(heap, recs[i], recs[j]))

\* The logged call that bound the name (in the run of the two groupings)
CallNamed(name) == calls[CHOOSE n \in DOMAIN calls : calls[n].name = name]

\* The text of t between its first "/" and the next one, or the end of t
AfterFirstSlash(t) == DropFirst(t, Find(t, "/", 0) + 1)
UpToSlash(t) == IF Find(t, "/", 0) = -1 THEN t ELSE TakeFirst(t, Find(t, "/", 0))
BetweenSlashes(t) == UpToSlash(AfterFirstSlash(t))

HasSlash(t) == \E i \in DOMAIN t : t[i] = "/"

\* The lines whose request has a target and which fail for no other reason
\* (line 9 lacks the referrer, line 12 has the byte count "-")
TargetLines == (DOMAIN RequestTarget) \ {9, 12}

\* The customer id of each of them, when its target has a "/"
CustomerId == [l \in TargetLines |-> BetweenSlashes(RequestTarget[l])]

\* ------------------------------------------------------------------------
\* Properties.
\* ------------------------------------------------------------------------

\* C1: every reduce_records call, at any point of a run, returns the sums
\* of the two inputs' counters and, for both mappings, the key-wise sum of
\* the inputs' mappings over exactly the union of their keys. (Refuted:
\* the returned mappings are the shared default dictionaries, which keep
\* the keys of earlier calls.)
C1_MergeContract ==
    \A n \in DOMAIN calls :
        calls[n].out = SumOfValues(calls[n].in1, calls[n].in2)

\* C2: at any point of a run, reduce_records(r, LogResults()) returns the
\* value of r. (Refuted: after an earlier merge LogResults() refers to
\* dictionaries that are not empty.)
C2_MergeIdentity ==
    \A n \in DOMAIN calls :
        recs[calls[n].rec2] = DefaultLogResults
            => calls[n].out = calls[n].in1

\* C3: when both groupings are evaluated in one run,
\* reduce_records(reduce_records(a, b), c) and
\* reduce_records(a, reduce_records(b, c)) return the same value.
\* (Refuted.)
C3_Associative ==
    (pc = "groupings" /\ Len(calls) = 4)
        => CallNamed("ab_c").out = CallNamed("a_bc").out

C5_NoAliasing ==
    [][pc = "client" =>
          \A i \in DOMAIN recs : ValueOf(heap', recs[i]) = ValueOf(heap, recs[i])]_vars

\* C6: whenever the loop of __main__ has merged the files read so far, in
\* whatever order the directory listed them, the aggregate holds the
\* number of records read, the number of records whose referrer host does
\* not contain "example.com", for each customer the bytes of all its
\* records, and for each request path the number of its records with a
\* 2xx status (paths with none are absent).
C6_AggregationCorrect ==
    pc \in {"loop", "done"}
        => ValueOf(heap, aggregate_results) = ExpectedValue

\* C6 witness: the run ended after two files that held the three records
\* of lines 1, 2 and 3.
C6_Witness ==
    /\ pc = "done"
    /\ seen = SetToBag({1, 2, 3})
    /\ ValueOf(heap, aggregate_results) =
           [offsite |-> 1, total |-> 3,
            customer_usage |-> (Bob :> 157),
            popular_urls |-> (PathBobA :> 2)]

\* C7: a step that reads a malformed line ends the run with the exception,
\* with nothing printed and nothing kept of the files parsed before; a
\* step that reads any other line accumulates it (no line is skipped); and
\* a run that has ended with an exception takes no further step.
C7_FailFast ==
    [][/\ pc # "crashed"
       /\ \A l \in LineIds :
              Reads(l) =>
                  IF l \in Malformed
                  THEN /\ pc' = "crashed"
                       /\ error' \in {"ValueError", "IndexError"}
                       /\ output' = <<>>
                       /\ log_files' = <<>>
                       /\ aggregate_results' = Unbound
                       /\ heap' = EmptyHeap
                  ELSE /\ pc' = "read"
                       /\ locals'.total_records = locals.total_records + 1]_vars

\* C7 witness: the run crashed on the byte count "-" of line 12, read from
\* the second file after a first file of two lines had been merged.
C7_Witness ==
    /\ pc = "crashed"
    /\ error = "ValueError"
    /\ CopiesIn(12, seen) = 1
    /\ BagCardinality(seen) = 3
    /\ output = <<>>

\* C8: the selection has min(limit, number of URLs) elements, each a
\* (URL, count) pair of the map, no URL twice, counts non-increasing, and
\* no URL left out has a count above that of a URL included.
C8_TopK ==
    pc = "selected" =>
        /\ Len(selection) = Min(top_limit, Len(freq_items))
        /\ \A n \in DOMAIN selection :
               \E m \in DOMAIN freq_items : freq_items[m] = selection[n]
        /\ \A n, m \in DOMAIN selection :
               selection[n][1] = selection[m][1] => n = m
        /\ \A n \in 1..(Len(selection) - 1) :
               selection[n][2] >= selection[n + 1][2]
        /\ \A m \in DOMAIN freq_items :
               (\A n \in DOMAIN selection : selection[n][1] # freq_items[m][1])
                   => \A n \in DOMAIN selection :
                          freq_items[m][2] <= selection[n][2]

\* C8 witness: two of three URLs were selected, the map's first URL, with
\* the lowest count, left out.
C8_Witness ==
    /\ pc = "selected"
    /\ top_limit = 2
    /\ Len(freq_items) = 3
    /\ Len(selection) = 2
    /\ freq_items[1][2] = 1
    /\ selection[1][2] = 2
    /\ selection[2][2] = 2

\* C9 as stated: every accumulated record's request target begins with "/"
\* and has a non-empty segment after it, under which the record is
\* accumulated; a target with no such segment ("/" or one without "/")
\* makes the extraction fail. (Refuted by the target "/".)
C9_LeadingSlashSegment ==
    [][\A l \in TargetLines :
          Reads(l) =>
              IF Head(RequestTarget[l]) = "/" /\ CustomerId[l] # <<>>
              THEN /\ pc' = "read"
                   /\ DOMAIN locals'.customers_usage =
                          (DOMAIN locals.customers_usage) \cup {CustomerId[l]}
              ELSE pc' = "crashed"]_vars

\* C9 as amended: every accumulated record is accumulated under the text
\* between the first "/" of its request target and the next "/" (or the
\* end of the target), which may be empty, and the target need not begin
\* with "/"; the extraction fails with an IndexError when the target has
\* no "/" at all.
C9_CustomerId ==
    [][\A l \in TargetLines :
          Reads(l) =>
              IF HasSlash(RequestTarget[l])
              THEN /\ pc' = "read"
                   /\ DOMAIN locals'.customers_usage =
                          (DOMAIN locals.customers_usage) \cup {CustomerId[l]}
                   /\ locals'.customers_usage[CustomerId[l]] =
                          Get(locals.customers_usage, CustomerId[l])
                              + Expected[l].bytes
              ELSE /\ pc' = "crashed"
                   /\ error' = "IndexError"]_vars

\* C9 witness: the record of line 5, whose target is "/", has been
\* accumulated under the empty customer id, and the record of line 7, whose
\* target is "al/b", under "b".
C9_Witness ==
    /\ pc = "read"
    /\ seen = SetToBag({5, 7})
    /\ locals.customers_usage = (<<>> :> 2) @@ (<<"b">> :> 1)

\* C10: a run in which every line parses ends with the report, the
\* off-site percentage being offsite / total * 100; so a run crashes only
\* on a malformed line. (Refuted: with no record read, line 139 divides by
\* zero before anything is printed.)
C10_ReportWhenAllParse ==
    /\ pc = "crashed" => \E l \in SeenLines : l \in Malformed
    /\ pc = "done" =>
           /\ Len(output) = 3
           /\ output[1].percent =
                  RoundDiv(output[1].offsite * 10000, output[1].total)
=============================================================================
